---- MODULE Spec2Model ----
(***************************************************************************)
(* docker-makepkg: the three programs of the repository as state machines. *)
(*                                                                         *)
(*   src/run.py               the container entrypoint (DmakepkgContainer) *)
(*   src/bin/dmakepkg.py      the host launcher (Dmakepkg)                 *)
(*   src/containerBuilder.py  the image-preparation manager                *)
(*                            (DmakepkgBuilder)                            *)
(*                                                                         *)
(* A behaviour is one execution of one of the three scripts (variable      *)
(* program); the launcher's execution contains the execution of the        *)
(* entrypoint inside the container it spawns.                              *)
(*                                                                         *)
(* Python strings that the code inspects (argv tokens, numbers given as    *)
(* text, DISTCC_HOSTS, file names) are sequences of one-character strings, *)
(* so that int(), str(), "in", startswith and the glob are computed and     *)
(* not assumed.  Fixed literals that are only passed on are TLA+ strings.  *)
(***************************************************************************)
EXTENDS Integers, Sequences, FiniteSets, TLC

(***************************************************************************)
(* Bounds of the model.                                                    *)
(***************************************************************************)
\* number of distinct package archives one build-tool run may deposit
MaxArtifacts == 2
\* number of addresses netifaces may report per address family on docker0
MaxAddrs == 2

(***************************************************************************)
(* Python values.                                                          *)
(***************************************************************************)
None == [isNone |-> TRUE]
Some(v) == [isNone |-> FALSE, val |-> v]

\* bool(x) of a bool-or-None
TruthyBool(o) == ~o.isNone /\ o.val
\* bool(x) of a str-or-None or of a list-or-None
TruthySeq(o) == ~o.isNone /\ o.val # <<>>

Digits == {"0", "1", "2", "3", "4", "5", "6", "7", "8", "9"}

DigitVal(c) ==
    CASE c = "0" -> 0 [] c = "1" -> 1 [] c = "2" -> 2 [] c = "3" -> 3
      [] c = "4" -> 4 [] c = "5" -> 5 [] c = "6" -> 6 [] c = "7" -> 7
      [] c = "8" -> 8 [] c = "9" -> 9

DigitChar(d) ==
    CASE d = 0 -> "0" [] d = 1 -> "1" [] d = 2 -> "2" [] d = 3 -> "3"
      [] d = 4 -> "4" [] d = 5 -> "5" [] d = 6 -> "6" [] d = 7 -> "7"
      [] d = 8 -> "8" [] d = 9 -> "9"

AllDigits(s) == s # <<>> /\ \A i \in 1..Len(s) : s[i] \in Digits

RECURSIVE DecVal(_)
DecVal(s) ==
    IF s = <<>> THEN 0
    ELSE DecVal(SubSeq(s, 1, Len(s) - 1)) * 10 + DigitVal(s[Len(s)])

\* int(x): x is None raises TypeError, a text that is no decimal integer
\* raises ValueError, otherwise the value
PyInt(o) ==
    IF o.isNone THEN [ok |-> FALSE, exc |-> "TypeError", val |-> 0]
    ELSE IF AllDigits(o.val) THEN [ok |-> TRUE, exc |-> "", val |-> DecVal(o.val)]
    ELSE IF Len(o.val) > 1 /\ o.val[1] \in {"-", "+"} /\ AllDigits(Tail(o.val))
         THEN [ok |-> TRUE, exc |-> "",
               val |-> IF o.val[1] = "-" THEN 0 - DecVal(Tail(o.val))
                       ELSE DecVal(Tail(o.val))]
    ELSE [ok |-> FALSE, exc |-> "ValueError", val |-> 0]

\* str(n) of a non-negative int
RECURSIVE PyStr(_)
PyStr(n) ==
    IF n < 10 THEN <<DigitChar(n)>>
    ELSE PyStr(n \div 10) \o <<DigitChar(n % 10)>>

\* sub in s
Contains(s, sub) ==
    \E i \in 1..(Len(s) - Len(sub) + 1) : SubSeq(s, i, i + Len(sub) - 1) = sub

StartsWith(s, pre) ==
    Len(s) >= Len(pre) /\ SubSeq(s, 1, Len(pre)) = pre

EndsWith(s, suf) ==
    Len(s) >= Len(suf) /\ SubSeq(s, Len(s) - Len(suf) + 1, Len(s)) = suf

\* the elements of a sequence
Range(s) == {s[i] : i \in 1..Len(s)}

\* a set as a sequence, in a fixed order
RECURSIVE SetToSeq(_)
SetToSeq(S) ==
    IF S = {} THEN <<>>
    ELSE LET x == CHOOSE y \in S : TRUE IN <<x>> \o SetToSeq(S \ {x})

(***************************************************************************)
(* Text constants (sequences of characters).                               *)
(***************************************************************************)
OPT_e == <<"-", "e">>
OPT_g == <<"-", "g">>
OPT_p == <<"-", "p">>
OPT_u == <<"-", "u">>
OPT_y == <<"-", "y">>
OPT_Z == <<"-", "Z">>
OPT_z == <<"-", "z">>
OPT_x == <<"-", "x">>
OPT_X == <<"-", "X">>
OPT_Y == <<"-", "Y">>
OPT_v == <<"-", "v">>
OPT_name == <<"-", "-", "n", "a", "m", "e">>

\* ",cpp": the marker check_for_pump_mode looks for in DISTCC_HOSTS
CppMarker == <<",", "c", "p", "p">>
\* "pkg.tar": the literal part of the glob /build/*pkg.tar*
GlobLiteral == <<"p", "k", "g", ".", "t", "a", "r">>
\* "PKGBUILD"
PkgbuildName == <<"P", "K", "G", "B", "U", "I", "L", "D">>
\* ".gnupg" and "gpg.conf"
GnupgName == <<".", "g", "n", "u", "p", "g">>
GpgConfName == <<"g", "p", "g", ".", "c", "o", "n", "f">>
\* "--nosign --force --syncdeps --noconfirm".split()
RestDefaults ==
    << <<"-", "-", "n", "o", "s", "i", "g", "n">>,
       <<"-", "-", "f", "o", "r", "c", "e">>,
       <<"-", "-", "s", "y", "n", "c", "d", "e", "p", "s">>,
       <<"-", "-", "n", "o", "c", "o", "n", "f", "i", "r", "m">> >>

\* a caller-supplied pre-build command and a pass-through build-tool argument
CmdText == <<"t", "r", "u", "e">>
PassThrough == <<"-", "-", "n", "o", "c", "h", "e", "c", "k">>

\* "<i>.pkg.tar.zst": the i-th archive a build can deposit; 0 is an archive
\* that lay in the source directory before the run
ArtName(i) ==
    <<DigitChar(i)>> \o <<".">> \o GlobLiteral \o <<".", "z", "s", "t">>

Artifacts == {ArtName(i) : i \in 1..MaxArtifacts}
OldPkg == ArtName(0)

(***************************************************************************)
(* State.                                                                  *)
(***************************************************************************)
VARIABLES
    program,          \* the script that is executed
    \* ---- the container's file system and user database
    pkgbuild,         \* what /src/PKGBUILD is
    srcFiles,         \* entries of /src (the caller's directory): name -> origin
    buildTree,        \* entries of /build: path below /build -> metadata
    passwd,           \* the passwd entry of build-user, or None
    \* ---- src/run.py, DmakepkgContainer
    argv,             \* sys.argv[1:] of the entrypoint
    pc,               \* position of the entrypoint in main()
    namespace,        \* result of parse_known_args
    container,        \* the object's attributes (self.*)
    stat_result,      \* os.stat("/src/PKGBUILD"), once taken
    build_user_uid,
    build_user_gid,
    distcc_hosts,     \* get_var("/etc/makepkg.conf", "DISTCC_HOSTS"), once read
    flags,
    built_packages,
    cwd,              \* working directory of the entrypoint process
    running,          \* the subprocess the entrypoint is blocked on, or None
    log,              \* side effects of the entrypoint, in order
    exitStatus,       \* exit status of the entrypoint process, once exited
    traceback,        \* the uncaught exception that ended it, or ""
    \* ---- src/bin/dmakepkg.py, Dmakepkg
    largv,            \* sys.argv[1:] of the launcher
    lpc,              \* position of the launcher in main()
    lnamespace,       \* result of the launcher's parse_known_args
    launcher,         \* the object's attributes (self.*)
    parameters,
    makepkg_conf,     \* the host's /etc/makepkg.conf, once looked at
    complete_cmd_line,
    docker_status,    \* what docker_process.wait() returned
    signLog,          \* the reading of BUILDENV and the signing passes
    lexit,            \* exit status of the launcher, once exited
    \* ---- src/containerBuilder.py, DmakepkgBuilder
    mpc,              \* position of the manager in main()
    addresses,        \* what netifaces.ifaddresses('docker0') gave
    ip_address,
    cache,            \* self.cache
    pacman_cache_ip,  \* self.pacman_cache_ip
    dockerfile,       \* the Dockerfile written by create_dockerfile
    darkhttpd_process,\* the cache server: "none", "running", "terminated"
    iptables,         \* the INPUT chain, first rule first
    atexit,           \* the functions registered with atexit, in order
    mlog,             \* side effects of the manager, in order
    signalled,        \* the signal delivered to the manager, or ""
    mexit,            \* exit status of the manager, once ended
    mtraceback        \* the uncaught exception that ended it, or ""

envVars == <<pkgbuild, srcFiles, buildTree, passwd>>
epVars == <<argv, pc, namespace, container, stat_result, build_user_uid,
            build_user_gid, distcc_hosts, flags, built_packages, cwd, running,
            log, exitStatus, traceback>>
lnVars == <<largv, lpc, lnamespace, launcher, parameters, makepkg_conf,
            complete_cmd_line, docker_status, signLog, lexit>>
mgrVars == <<mpc, addresses, ip_address, cache, pacman_cache_ip, dockerfile,
             darkhttpd_process, iptables, atexit, mlog, signalled, mexit,
             mtraceback>>
vars == <<program, envVars, epVars, lnVars, mgrVars>>

(***************************************************************************)
(* src/run.py: helpers.                                                    *)
(***************************************************************************)
\* DmakepkgContainer.__init__
ContainerInit ==
    [rest |-> None, command |-> None, group |-> None,
     run_pacman_syu |-> None, user |-> None, use_pump_mode |-> None,
     download_keys |-> None]

\* argparse: does this argument string look like an option (and not like a
\* value)?  A lone "-", a negative number and a string with a space are values.
IsOptionLike(t) ==
    /\ Len(t) > 1
    /\ t[1] = "-"
    /\ ~AllDigits(Tail(t))
    /\ " " \notin Range(t)

\* the defaults of the entrypoint's parser: nargs='?' options default to
\* None, store_true to False, store_false to True
NamespaceDefaults ==
    [e |-> None, g |-> None, p |-> FALSE, u |-> None, y |-> TRUE,
     Z |-> FALSE, z |-> TRUE, extras |-> <<>>]

\* parse_known_args: known switches are stored, an nargs='?' option takes
\* the next argument if that is a value and None otherwise, everything else
\* is returned as the remaining arguments
RECURSIVE ParseFrom(_, _, _)
ParseFrom(args, i, ns) ==
    IF i > Len(args) THEN ns
    ELSE LET t == args[i]
             hasVal == i < Len(args) /\ ~IsOptionLike(args[i + 1])
             v == IF hasVal THEN Some(args[i + 1]) ELSE None
             j == IF hasVal THEN i + 2 ELSE i + 1
         IN  IF t = OPT_e THEN ParseFrom(args, j, [ns EXCEPT !.e = v])
             ELSE IF t = OPT_g THEN ParseFrom(args, j, [ns EXCEPT !.g = v])
             ELSE IF t = OPT_u THEN ParseFrom(args, j, [ns EXCEPT !.u = v])
             ELSE IF t = OPT_p THEN ParseFrom(args, i + 1, [ns EXCEPT !.p = TRUE])
             ELSE IF t = OPT_y THEN ParseFrom(args, i + 1, [ns EXCEPT !.y = FALSE])
             ELSE IF t = OPT_Z THEN ParseFrom(args, i + 1, [ns EXCEPT !.Z = TRUE])
             ELSE IF t = OPT_z THEN ParseFrom(args, i + 1, [ns EXCEPT !.z = FALSE])
             ELSE ParseFrom(args, i + 1, [ns EXCEPT !.extras = Append(@, t)])

ParseKnownArgs(args) == ParseFrom(args, 1, NamespaceDefaults)

\* os.path.isfile follows symbolic links; os.path.islink does not
IsFile(kind) == kind \in {"regular", "symlink"}
IsLink(kind) == kind \in {"symlink", "dangling"}

\* a precondition that forgets the islink test
PkgbuildOkFollowingLinks(kind) == IsFile(kind)

\* the precondition of main: not (not isfile or islink)
PkgbuildOk(kind) == ~(~IsFile(kind) \/ IsLink(kind))

\* os.chown(path, uid, gid): -1 leaves that id unchanged
Chown(meta, uid, gid) ==
    [meta EXCEPT !.uid = IF uid = -1 THEN @ ELSE uid,
                 !.gid = IF gid = -1 THEN @ ELSE gid]

\* the entries os.walk(path) yields: everything strictly below path
Below(tree, path) ==
    {q \in DOMAIN tree : Len(q) > Len(path) /\ SubSeq(q, 1, Len(path)) = path}

\* change_user_or_gid(uid, gid, path) for a path below /build
ChangeUserOrGid(tree, uid, gid, path) ==
    [q \in DOMAIN tree |->
        IF q \in Below(tree, path) THEN Chown(tree[q], uid, gid) ELSE tree[q]]

\* change_permissions_recursively(path, mode) for a path below /build
ChangePermissionsRecursively(tree, path, mode) ==
    [q \in DOMAIN tree |->
        IF q \in Below(tree, path) THEN [tree[q] EXCEPT !.mode = mode]
        ELSE tree[q]]

\* glob.iglob("/build/*pkg.tar*"): entries directly in /build whose name
\* holds the literal; * does not match a leading dot
GlobBuild(tree) ==
    {q \in DOMAIN tree :
        /\ Len(q) = 1
        /\ q[1][1] # "."
        /\ Contains(q[1], GlobLiteral)}

\* a pump-mode test that ignores the opt-out switch
CheckForPumpModeIgnoringOptOut(hosts, use_pump_mode) ==
    Contains(hosts, CppMarker)

\* check_for_pump_mode
CheckForPumpMode(hosts, use_pump_mode) ==
    Contains(hosts, CppMarker) /\ use_pump_mode

\* a result stage that reports success whatever was harvested
ResultStatusAlwaysZero(built) == 0

\* the exit status of the result stage
ResultStatus(built) == IF built = <<>> THEN 2 ELSE 0

(***************************************************************************)
(* src/run.py: DmakepkgContainer.main, one action per step.  A subprocess  *)
(* the entrypoint waits for is held in running; a step that follows a      *)
(* blocking call (subprocess.run, Popen + wait / communicate) is enabled   *)
(* only once that subprocess has exited.  What a system call or a          *)
(* subprocess reports (os.stat, get_var, useradd's ids, the outcome of a   *)
(* copy or of the build) is drawn from a small set when it is asked for.   *)
(***************************************************************************)
\* the entrypoint runs as root in the container
RootOwner == [uid |-> 0, gid |-> 0]

\* the home directory useradd -d /build gives build-user; su -l starts there
BuildHome == "/build"

\* the uid and gid useradd allocates when none is given
GeneratedIds == {1000}

\* owners of /src/PKGBUILD
PkgOwners == {[uid |-> 1000, gid |-> 1000], [uid |-> 1001, gid |-> 100]}

\* values of DISTCC_HOSTS: "", "h,lzo" and "h,cpp"
HostLists == {<<>>, <<"h", ",", "l", "z", "o">>, <<"h", ",", "c", "p", "p">>}

\* sys.exit(status), or the interpreter ending on an uncaught exception
Exit(status, exc) ==
    /\ pc' = "exited"
    /\ exitStatus' = Some(status)
    /\ traceback' = exc

\* a start of a subprocess that nobody waits for
SpawnWithoutWaiting(child) ==
    /\ running' = None
    /\ log' = Append(log, [op |-> "spawn", child |-> child])

\* subprocess.run, and subprocess.Popen followed by wait / communicate,
\* start a subprocess; the entrypoint is blocked until it has exited
Spawn(child) ==
    /\ running' = child
    /\ log' = Append(log, [op |-> "spawn", child |-> child])

\* lines 129-160: the parser and parse_known_args
EpParse ==
    /\ pc = "parse"
    /\ namespace' = ParseKnownArgs(argv)
    /\ container' = [container EXCEPT !.rest = Some(ParseKnownArgs(argv).extras)]
    /\ pc' = "check"
    /\ UNCHANGED <<program, envVars, argv, stat_result, build_user_uid,
                   build_user_gid, distcc_hosts, flags, built_packages,
                   cwd, running, log, exitStatus, traceback, lnVars,
                   mgrVars>>

\* lines 162-164: the precondition
EpCheckPkgbuild ==
    /\ pc = "check"
    /\ IF ~PkgbuildOk(pkgbuild)
       THEN Exit(1, "")
       ELSE pc' = "convert" /\ UNCHANGED <<exitStatus, traceback>>
    /\ UNCHANGED <<program, envVars, argv, namespace, container,
                   stat_result, build_user_uid, build_user_gid,
                   distcc_hosts, flags, built_packages, cwd, running, log,
                   lnVars, mgrVars>>

\* lines 166-172: the options become attributes; int() of a missing or
\* non-numeric -g / -u raises, and the uncaught exception ends the process
\* with status 1
EpConvert ==
    /\ pc = "convert"
    /\ LET g == PyInt(namespace.g)
           u == PyInt(namespace.u)
           c1 == [container EXCEPT !.command = namespace.e]
           c2 == [c1 EXCEPT !.group = Some(g.val),
                            !.run_pacman_syu = Some(namespace.p)]
           c3 == [c2 EXCEPT !.user = Some(u.val),
                            !.use_pump_mode = Some(namespace.y),
                            !.download_keys = Some(namespace.z)]
       IN  IF ~g.ok THEN container' = c1 /\ Exit(1, g.exc)
           ELSE IF ~u.ok THEN container' = c2 /\ Exit(1, u.exc)
           ELSE /\ container' = c3
                /\ pc' = IF namespace.Z THEN "groupadd" ELSE "useradd"
                /\ UNCHANGED <<exitStatus, traceback>>
    /\ UNCHANGED <<program, envVars, argv, namespace, stat_result,
                   build_user_uid, build_user_gid, distcc_hosts, flags,
                   built_packages, cwd, running, log, lnVars, mgrVars>>

\* lines 175-176: -Z, os.stat and the group with the gid of the PKGBUILD
EpGroupadd ==
    /\ pc = "groupadd"
    /\ running = None
    /\ \E st \in PkgOwners :
        /\ stat_result' = Some([st_uid |-> st.uid, st_gid |-> st.gid])
        /\ Spawn([cmd |-> "groupadd", gid |-> st.gid])
    /\ pc' = "useradd_Z"
    /\ UNCHANGED <<program, envVars, argv, namespace, container,
                   build_user_uid, build_user_gid, distcc_hosts, flags,
                   built_packages, cwd, exitStatus, traceback, lnVars,
                   mgrVars>>

\* line 177: -Z, the user with the uid and gid of the PKGBUILD
EpUseraddInPlace ==
    /\ pc = "useradd_Z"
    /\ running = None
    /\ Spawn([cmd |-> "useradd", home |-> BuildHome,
              uid |-> Some(stat_result.val.st_uid),
              gid |-> Some(stat_result.val.st_gid)])
    /\ pc' = "chdir"
    /\ UNCHANGED <<program, envVars, argv, namespace, container,
                   stat_result, build_user_uid, build_user_gid,
                   distcc_hosts, flags, built_packages, cwd, exitStatus,
                   traceback, lnVars, mgrVars>>

\* lines 178-179: -Z, build_user_uid = stat_result.st_gid; os.chdir("/src")
EpChdir ==
    /\ pc = "chdir"
    /\ running = None
    /\ build_user_uid' = Some(stat_result.val.st_gid)
    /\ cwd' = "/src"
    /\ log' = Append(log, [op |-> "chdir", path |-> "/src"])
    /\ pc' = "pacman"
    /\ UNCHANGED <<program, envVars, argv, namespace, container,
                   stat_result, build_user_gid, distcc_hosts, flags,
                   built_packages, running, exitStatus, traceback, lnVars,
                   mgrVars>>

\* line 181: the fixed service identity
EpUseradd ==
    /\ pc = "useradd"
    /\ running = None
    /\ Spawn([cmd |-> "useradd", home |-> BuildHome, uid |-> None, gid |-> None])
    /\ pc' = "copy"
    /\ UNCHANGED <<program, envVars, argv, namespace, container,
                   stat_result, build_user_uid, build_user_gid,
                   distcc_hosts, flags, built_packages, cwd, exitStatus,
                   traceback, lnVars, mgrVars>>

\* copy_tree("/src/", "/build"): every entry of /src appears in /build,
\* written by the entrypoint's identity
CopyTree(tree, src) ==
    [q \in {<<n>> : n \in DOMAIN src} |->
        [uid |-> RootOwner.uid, gid |-> RootOwner.gid, mode |-> 644,
         origin |-> "src"]] @@ tree

\* lines 182-185: the ids of the new user, the copy of the source tree and
\* its ownership
EpCopySource ==
    /\ pc = "copy"
    /\ running = None
    /\ ~passwd.isNone
    /\ build_user_uid' = Some(passwd.val.uid)
    /\ build_user_gid' = Some(passwd.val.gid)
    /\ buildTree' = ChangeUserOrGid(CopyTree(buildTree, srcFiles),
                                    passwd.val.uid, passwd.val.gid, <<>>)
    /\ log' = log \o << [op |-> "copy_tree", src |-> "/src/", dst |-> "/build"],
                        [op |-> "chown", uid |-> passwd.val.uid,
                         gid |-> passwd.val.gid, path |-> <<>>] >>
    /\ pc' = "pacman"
    /\ UNCHANGED <<program, pkgbuild, srcFiles, passwd, argv, namespace,
                   container, stat_result, distcc_hosts, flags,
                   built_packages, cwd, running, exitStatus, traceback,
                   lnVars, mgrVars>>

\* lines 187-194: pacman -Syu or pacman -Sy, as the entrypoint's identity
EpIndexRefresh ==
    /\ pc = "pacman"
    /\ running = None
    /\ Spawn([cmd |-> "pacman",
              args |-> IF container.run_pacman_syu.val THEN "-Syu" ELSE "-Sy"])
    /\ pc' = "keys"
    /\ UNCHANGED <<program, envVars, argv, namespace, container,
                   stat_result, build_user_uid, build_user_gid,
                   distcc_hosts, flags, built_packages, cwd, exitStatus,
                   traceback, lnVars, mgrVars>>

\* ~build-user/.gnupg and its gpg.conf, as paths below /build
Gnupg == <<GnupgName>>
GpgConf == <<GnupgName, GpgConfName>>

\* os.makedirs(gnupg, mode=0o700, exist_ok=True)
Makedirs(tree, path) ==
    IF path \in DOMAIN tree THEN tree
    ELSE (path :> [uid |-> RootOwner.uid, gid |-> RootOwner.gid, mode |-> 700,
                   origin |-> "makedirs"]) @@ tree

\* append_to_file(path, content): open(path, "a+") creates a missing file
AppendToFile(tree, path) ==
    IF path \in DOMAIN tree THEN [tree EXCEPT ![path].origin = "append_to_file"]
    ELSE (path :> [uid |-> RootOwner.uid, gid |-> RootOwner.gid, mode |-> 644,
                   origin |-> "append_to_file"]) @@ tree

\* lines 205-210 on the tree below /build
KeySetup(tree, uid, gid) ==
    LET t1 == Makedirs(tree, Gnupg)
        t2 == ChangeUserOrGid(t1, uid, gid, <<>>)
        t3 == ChangePermissionsRecursively(t2, Gnupg, 700)
        t4 == AppendToFile(t3, GpgConf)
    IN  ChangePermissionsRecursively(t4, GpgConf, 600)

\* lines 195-210: the build-tool arguments, and the key-retrieval setup
EpKeySetup ==
    /\ pc = "keys"
    /\ running = None
    /\ flags' = IF ~TruthySeq(container.rest) THEN RestDefaults
                ELSE container.rest.val
    /\ built_packages' = <<>>
    /\ IF container.download_keys.val
       THEN /\ ~passwd.isNone
            /\ buildTree' = KeySetup(buildTree, build_user_uid.val, passwd.val.gid)
            /\ log' = log \o << [op |-> "makedirs", path |-> Gnupg],
                                [op |-> "chown", uid |-> build_user_uid.val,
                                 gid |-> passwd.val.gid, path |-> <<>>],
                                [op |-> "append", path |-> GpgConf] >>
       ELSE UNCHANGED <<buildTree, log>>
    /\ pc' = "command"
    /\ UNCHANGED <<program, pkgbuild, srcFiles, passwd, argv, namespace,
                   container, stat_result, build_user_uid, build_user_gid,
                   distcc_hosts, cwd, running, exitStatus, traceback,
                   lnVars, mgrVars>>

\* lines 213-215: the pre-build command
EpPreBuildCommand ==
    /\ pc = "command"
    /\ running = None
    /\ IF TruthySeq(container.command)
       THEN Spawn([cmd |-> "command", text |-> container.command.val])
       ELSE UNCHANGED <<running, log>>
    /\ pc' = "build"
    /\ UNCHANGED <<program, envVars, argv, namespace, container,
                   stat_result, build_user_uid, build_user_gid,
                   distcc_hosts, flags, built_packages, cwd, exitStatus,
                   traceback, lnVars, mgrVars>>

\* lines 218-223: su -c 'DISTCC_HOSTS=... pump makepkg <flags>' -s /bin/bash
\* build-user; without -l, su keeps the working directory of the entrypoint
EpBuildPump ==
    /\ pc = "build"
    /\ running = None
    /\ \E hosts \in HostLists :
        /\ CheckForPumpMode(hosts, container.use_pump_mode.val)
        /\ distcc_hosts' = Some(hosts)
        /\ Spawn([cmd |-> "su", user |-> "build-user", shell |-> "/bin/bash",
                  login |-> FALSE, pump |-> TRUE, hosts |-> hosts,
                  flags |-> flags, cwd |-> cwd])
    /\ pc' = "chown"
    /\ UNCHANGED <<program, envVars, argv, namespace, container,
                   stat_result, build_user_uid, build_user_gid, flags,
                   built_packages, cwd, exitStatus, traceback, lnVars,
                   mgrVars>>

\* lines 231-243: su -c 'makepkg <flags>' -s /bin/bash -l build-user; the
\* login shell starts in the home directory of build-user
EpBuildDirect ==
    /\ pc = "build"
    /\ running = None
    /\ \E hosts \in HostLists :
        /\ ~CheckForPumpMode(hosts, container.use_pump_mode.val)
        /\ distcc_hosts' = Some(hosts)
        /\ Spawn([cmd |-> "su", user |-> "build-user", shell |-> "/bin/bash",
                  login |-> TRUE, pump |-> FALSE, hosts |-> <<>>,
                  flags |-> flags, cwd |-> BuildHome])
    /\ pc' = "chown"
    /\ UNCHANGED <<program, envVars, argv, namespace, container,
                   stat_result, build_user_uid, build_user_gid, flags,
                   built_packages, cwd, exitStatus, traceback, lnVars,
                   mgrVars>>

\* lines 245-248: the ids handed to change_user_or_gid, or None for no call
FinalOwnership(user, group) ==
    IF user # 0 /\ ~(group # 0) THEN Some([uid |-> user, gid |-> group])
    ELSE IF user # 0 THEN Some([uid |-> user, gid |-> -1])
    ELSE None

\* lines 245-248: ownership finalization
EpFinalizeOwnership ==
    /\ pc = "chown"
    /\ running = None
    /\ LET ids == FinalOwnership(container.user.val, container.group.val)
       IN  IF ids.isNone THEN UNCHANGED <<buildTree, log>>
           ELSE /\ buildTree' = ChangeUserOrGid(buildTree, ids.val.uid,
                                                ids.val.gid, <<>>)
                /\ log' = Append(log, [op |-> "chown", uid |-> ids.val.uid,
                                       gid |-> ids.val.gid, path |-> <<>>])
    /\ pc' = "harvest"
    /\ UNCHANGED <<program, pkgbuild, srcFiles, passwd, argv, namespace,
                   container, stat_result, build_user_uid, build_user_gid,
                   distcc_hosts, flags, built_packages, cwd, running,
                   exitStatus, traceback, lnVars, mgrVars>>

\* lines 252-257: every match of the glob is copied to /src; a copy that
\* raises is reported and the loop goes on
EpHarvest ==
    /\ pc = "harvest"
    /\ \E failed \in SUBSET GlobBuild(buildTree) :
        LET copied == GlobBuild(buildTree) \ failed
        IN  /\ srcFiles' = [n \in {q[1] : q \in copied} |-> "harvest"] @@ srcFiles
            /\ built_packages' = built_packages \o SetToSeq(copied)
            /\ log' = Append(log, [op |-> "harvest",
                                   attempted |-> GlobBuild(buildTree),
                                   copied |-> copied])
    /\ pc' = "result"
    /\ UNCHANGED <<program, pkgbuild, buildTree, passwd, argv, namespace,
                   container, stat_result, build_user_uid, build_user_gid,
                   distcc_hosts, flags, cwd, running, exitStatus,
                   traceback, lnVars, mgrVars>>

\* lines 259-262: the result
EpResult ==
    /\ pc = "result"
    /\ Exit(ResultStatus(built_packages), "")
    /\ UNCHANGED <<program, envVars, argv, namespace, container,
                   stat_result, build_user_uid, build_user_gid,
                   distcc_hosts, flags, built_packages, cwd, running, log,
                   lnVars, mgrVars>>

(***************************************************************************)
(* The subprocesses of the entrypoint.  Their exit status is discarded by  *)
(* the code everywhere; it is recorded for the build tool only.            *)
(***************************************************************************)
\* groupadd, pacman and the pre-build command exit
ChildExit ==
    /\ running # None
    /\ running.cmd \in {"groupadd", "pacman", "command"}
    /\ running' = None
    /\ log' = Append(log, [op |-> "exit", cmd |-> running.cmd])
    /\ UNCHANGED <<program, envVars, argv, pc, namespace, container,
                   stat_result, build_user_uid, build_user_gid,
                   distcc_hosts, flags, built_packages, cwd, exitStatus,
                   traceback, lnVars, mgrVars>>

\* useradd -m exits: build-user exists, with the ids given or with generated
\* ones, and owns its new home directory /build
UseraddExit ==
    /\ running # None
    /\ running.cmd = "useradd"
    /\ \E id \in GeneratedIds :
        LET uid == IF running.uid.isNone THEN id ELSE running.uid.val
            gid == IF running.gid.isNone THEN id ELSE running.gid.val
        IN  /\ passwd' = Some([uid |-> uid, gid |-> gid, home |-> running.home])
            /\ buildTree' = (<<>> :> [uid |-> uid, gid |-> gid, mode |-> 700,
                                      origin |-> "useradd"]) @@ buildTree
    /\ running' = None
    /\ log' = Append(log, [op |-> "exit", cmd |-> running.cmd])
    /\ UNCHANGED <<program, pkgbuild, srcFiles, argv, pc, namespace,
                   container, stat_result, build_user_uid, build_user_gid,
                   distcc_hosts, flags, built_packages, cwd, exitStatus,
                   traceback, lnVars, mgrVars>>

\* does the directory the build tool was started in hold a PKGBUILD?
HasPkgbuild(dir) ==
    \/ dir = "/build" /\ <<PkgbuildName>> \in DOMAIN buildTree
    \/ dir = "/src" /\ PkgbuildName \in DOMAIN srcFiles

\* makepkg (under su, as build-user) exits: with any status, having
\* deposited any set of archives in the directory it was started in; without
\* a PKGBUILD there it fails and deposits nothing
MakepkgExit ==
    /\ running # None
    /\ running.cmd = "su"
    /\ \E produced \in SUBSET Artifacts, rc \in {0, 1} :
        /\ ~HasPkgbuild(running.cwd) => (produced = {} /\ rc = 1)
        /\ buildTree' =
             IF running.cwd = "/build"
             THEN [q \in {<<n>> : n \in produced} |->
                     [uid |-> passwd.val.uid, gid |-> passwd.val.gid,
                      mode |-> 644, origin |-> "makepkg"]] @@ buildTree
             ELSE buildTree
        /\ srcFiles' =
             IF running.cwd = "/src"
             THEN [n \in produced |-> "makepkg"] @@ srcFiles
             ELSE srcFiles
        /\ log' = Append(log, [op |-> "exit", cmd |-> running.cmd, rc |-> rc,
                               produced |-> produced])
    /\ running' = None
    /\ UNCHANGED <<program, pkgbuild, passwd, argv, pc, namespace,
                   container, stat_result, build_user_uid, build_user_gid,
                   distcc_hosts, flags, built_packages, cwd, exitStatus,
                   traceback, lnVars, mgrVars>>

(***************************************************************************)
(* src/bin/dmakepkg.py: Dmakepkg.                                          *)
(***************************************************************************)
\* Dmakepkg.__init__ (the attributes main reads or writes)
LauncherInit ==
    [use_pump_mode |-> None, download_keys |-> None, command |-> None,
     use_host_pacman |-> None]

\* the defaults of the launcher's parser: -x, -X and -y are store_false,
\* -Y, -z and -Z are store_true
LauncherDefaults ==
    [x |-> TRUE, X |-> TRUE, y |-> TRUE, Y |-> FALSE, z |-> FALSE, Z |-> FALSE,
     e |-> None, rest |-> <<>>, extras |-> <<>>]

\* the launcher's parse_known_args: as the entrypoint's, and the first
\* positional argument starts 'rest' (argparse.REMAINDER), which takes
\* everything that follows
RECURSIVE LParseFrom(_, _, _)
LParseFrom(args, i, ns) ==
    IF i > Len(args) THEN ns
    ELSE LET t == args[i]
             hasVal == i < Len(args) /\ ~IsOptionLike(args[i + 1])
         IN  IF t = OPT_e
             THEN LParseFrom(args, IF hasVal THEN i + 2 ELSE i + 1,
                             [ns EXCEPT !.e = IF hasVal THEN Some(args[i + 1])
                                                ELSE None])
             ELSE IF t = OPT_x THEN LParseFrom(args, i + 1, [ns EXCEPT !.x = FALSE])
             ELSE IF t = OPT_X THEN LParseFrom(args, i + 1, [ns EXCEPT !.X = FALSE])
             ELSE IF t = OPT_y THEN LParseFrom(args, i + 1, [ns EXCEPT !.y = FALSE])
             ELSE IF t = OPT_Y THEN LParseFrom(args, i + 1, [ns EXCEPT !.Y = TRUE])
             ELSE IF t = OPT_z THEN LParseFrom(args, i + 1, [ns EXCEPT !.z = TRUE])
             ELSE IF t = OPT_Z THEN LParseFrom(args, i + 1, [ns EXCEPT !.Z = TRUE])
             ELSE IF IsOptionLike(t)
             THEN LParseFrom(args, i + 1, [ns EXCEPT !.extras = Append(@, t)])
             ELSE [ns EXCEPT !.rest = SubSeq(args, i, Len(args))]

LauncherParse(args) == LParseFrom(args, 1, LauncherDefaults)

\* the working directory of the caller, mounted as /src
HostCwd == <<"/", "w">>

ContainerName == <<"d", "m", "a", "k", "e", "p", "k", "g", "_", "u", "u", "i", "d", "4">>
ImageName == <<"m", "a", "k", "e", "p", "k", "g">>

PacmanConfMount ==
    <<"/", "e", "t", "c", "/", "p", "a", "c", "m", "a", "n", ".", "c", "o", "n", "f", ":", "/", "e", "t", "c", "/", "p", "a", "c", "m", "a", "n", ".", "c", "o", "n", "f">>

MirrorlistMount ==
    <<"/", "e", "t", "c", "/", "p", "a", "c", "m", "a", "n", ".", "d", "/", "m", "i", "r", "r", "o", "r", "l", "i", "s", "t", ":", "/", "e", "t", "c", "/", "p", "a", "c", "m", "a", "n", ".", "d", "/", "m", "i", "r", "r", "o", "r", "l", "i", "s", "t", ":", "r", "o">>

PkgCacheMount ==
    <<"/", "v", "a", "r", "/", "c", "a", "c", "h", "e", "/", "p", "a", "c", "m", "a", "n", "/", "p", "k", "g", ":", "/", "v", "a", "r", "/", "c", "a", "c", "h", "e", "/", "p", "a", "c", "m", "a", "n", "/", "p", "k", "g", ":", "r", "o">>

MakepkgConfMount ==
    <<"/", "e", "t", "c", "/", "m", "a", "k", "e", "p", "k", "g", ".", "c", "o", "n", "f", ":", "/", "e", "t", "c", "/", "m", "a", "k", "e", "p", "k", "g", ".", "c", "o", "n", "f", ":", "r", "o">>

\* the variables find_parameters resolves, in its order
DestVars == <<<<"S", "R", "C", "D", "E", "S", "T">>, <<"P", "K", "G", "D", "E", "S", "T">>, <<"S", "R", "C", "P", "K", "G", "D", "E", "S", "T">>, <<"L", "O", "G", "D", "E", "S", "T">>>>

\* "{}:{}".format(a, b)
FormatPair(a, b) == a \o <<":">> \o b

\* find_parameters: conf[k] is what get_var gives for DestVars[k]
RECURSIVE DestMounts(_, _)
DestMounts(conf, k) ==
    IF k > Len(DestVars) THEN <<>>
    ELSE (IF conf[k] # <<>> THEN <<OPT_v, FormatPair(DestVars[k], conf[k])>>
          ELSE <<>>) \o DestMounts(conf, k + 1)

FindParameters(conf) == <<OPT_v, MakepkgConfMount>> \o DestMounts(conf, 1)

\* lines 161-169
DockerRunHead ==
    << <<"/", "b", "i", "n", "/", "d", "o", "c", "k", "e", "r">>, <<"r", "u", "n">>, <<"-", "-", "i", "n", "i", "t">>, <<"-", "-", "r", "m">>, <<"-", "t", "i">>,
       <<"-", "-", "c", "p", "u", "-", "s", "h", "a", "r", "e", "s", "=", "1", "2", "8">>, <<"-", "-", "p", "i", "d", "s", "-", "l", "i", "m", "i", "t", "=", "-", "1">>,
       OPT_v, FormatPair(HostCwd, <<"/", "s", "r", "c">>) >>

\* lines 171-185: the complete command line
CompleteCmdLine(self, ns, params, euid, egid) ==
    DockerRunHead \o params \o <<ImageName>>
      \o (IF TruthyBool(self.download_keys) THEN <<OPT_z>> ELSE <<>>)
      \o (IF ~TruthyBool(self.use_pump_mode) THEN <<OPT_y>> ELSE <<>>)
      \o (IF ns.Z THEN <<OPT_Z>> ELSE <<>>)
      \o <<OPT_u, PyStr(euid), OPT_g, PyStr(egid)>>
      \o (IF TruthySeq(self.command) THEN <<OPT_e, self.command.val>> ELSE <<>>)
      \o ns.rest \o ns.extras

\* docker run [options] IMAGE [arguments]: the arguments the entrypoint of
\* the image is started with; -v and --name take the next word as value
RECURSIVE ImageIndex(_, _)
ImageIndex(cl, i) ==
    IF i > Len(cl) THEN 0
    ELSE IF cl[i] \in {OPT_v, OPT_name} THEN ImageIndex(cl, i + 2)
    ELSE IF cl[i][1] = "-" THEN ImageIndex(cl, i + 1)
    ELSE i

DockerRunArgs(cl) == SubSeq(cl, ImageIndex(cl, 3) + 1, Len(cl))

\* what get_var gives for SRCDEST, PKGDEST, SRCPKGDEST and LOGDEST
DestConfs ==
    { << <<>>, <<>>, <<>>, <<>> >>,
      << <<"/", "s">>, <<>>, <<>>, <<>> >>,
      << <<"/", "s">>, <<"/", "p">>, <<"/", "s", "p">>, <<"/", "l">> >> }

\* the host's /etc/makepkg.conf: missing, or with its destination variables
HostConfs ==
    {[exists |-> FALSE, dests |-> << <<>>, <<>>, <<>>, <<>> >>]}
      \cup {[exists |-> TRUE, dests |-> d] : d \in DestConfs}

\* what get_var gives for BUILDENV, split: nothing when the file is missing;
\* else no entry about signing, "!sign", "sign", or two entries that hold
\* "sign"
BuildEnvs(conf) ==
    IF conf.exists
    THEN {<<>>, <<<<"!", "s", "i", "g", "n">>>>, <<<<"s", "i", "g", "n">>>>, <<<<"s", "i", "g", "n">>, <<"g", "p", "g", "s", "i", "g", "n">>>>}
    ELSE {<<>>}

\* what get_var gives for GPGKEY
GpgKeys(conf) == IF conf.exists THEN {<<>>, <<"K", "E", "Y">>} ELSE {<<>>}

\* os.geteuid(), os.getegid() of the caller
CallerIds == {[euid |-> 1000, egid |-> 985]}

\* lines 190-192: does this BUILDENV entry ask for signing?
IsSignToken(t) == Contains(t, <<"s", "i", "g", "n">>) /\ ~StartsWith(t, <<"!">>)

\* line 60: the files sign_packages signs
ToSign(names) ==
    {n \in names : Contains(n, <<".", "p", "k", "g", ".">>) /\ ~EndsWith(n, <<"s", "i", "g">>)}

\* lines 86-153: the parser, the first parameters, the attributes
LnParse ==
    /\ lpc = "parse"
    /\ LET ns == LauncherParse(largv)
       IN  /\ lnamespace' = ns
           /\ parameters' =
                <<OPT_name, ContainerName>>
                  \o (IF ns.x THEN <<OPT_v, PacmanConfMount>> ELSE <<>>)
                  \o (IF ns.X THEN <<OPT_v, MirrorlistMount>> ELSE <<>>)
                  \o (IF ns.Y THEN <<OPT_v, PkgCacheMount>> ELSE <<>>)
           /\ launcher' = [launcher EXCEPT !.use_pump_mode = Some(ns.y),
                                           !.command = ns.e,
                                           !.use_host_pacman = Some(ns.x)]
    /\ lpc' = "find"
    /\ UNCHANGED <<program, envVars, epVars, largv, makepkg_conf,
                   complete_cmd_line, docker_status, signLog, lexit,
                   mgrVars>>

\* lines 155-156: the mounts of the build-tool configuration
LnFindParameters ==
    /\ lpc = "find"
    /\ \E conf \in HostConfs :
        /\ makepkg_conf' = Some(conf)
        /\ parameters' = IF conf.exists
                         THEN parameters \o FindParameters(conf.dests)
                         ELSE parameters
    /\ lpc' = "cmdline"
    /\ UNCHANGED <<program, envVars, epVars, largv, lnamespace, launcher,
                   complete_cmd_line, docker_status, signLog, lexit,
                   mgrVars>>

\* lines 161-185: the command line
LnCmdLine ==
    /\ lpc = "cmdline"
    /\ \E ids \in CallerIds :
        complete_cmd_line' =
            CompleteCmdLine(launcher, lnamespace, parameters, ids.euid, ids.egid)
    /\ lpc' = "spawn"
    /\ UNCHANGED <<program, envVars, epVars, largv, lnamespace, launcher,
                   parameters, makepkg_conf, docker_status, signLog, lexit,
                   mgrVars>>

\* line 187: docker run starts the container, whose entrypoint gets the
\* arguments that follow the image name
LnSpawn ==
    /\ lpc = "spawn"
    /\ pc = "notstarted"
    /\ argv' = DockerRunArgs(complete_cmd_line)
    /\ pc' = "parse"
    /\ lpc' = "wait"
    /\ UNCHANGED <<program, envVars, namespace, container, stat_result,
                   build_user_uid, build_user_gid, distcc_hosts, flags,
                   built_packages, cwd, running, log, exitStatus,
                   traceback, largv, lnamespace, launcher, parameters,
                   makepkg_conf, complete_cmd_line, docker_status, signLog,
                   lexit, mgrVars>>

\* line 188: wait() returns the exit status of docker run, which is the
\* exit status of the container's entrypoint; the value is dropped
LnWait ==
    /\ lpc = "wait"
    /\ pc = "exited"
    /\ docker_status' = exitStatus
    /\ lpc' = "sign"
    /\ UNCHANGED <<program, envVars, epVars, largv, lnamespace, launcher,
                   parameters, makepkg_conf, complete_cmd_line, signLog,
                   lexit, mgrVars>>

\* lines 190-193 and sign_packages: BUILDENV is read, and there is one pass
\* per entry that asks for signing; a pass runs gpg --detach-sign on every
\* file to sign
LnSign ==
    /\ lpc = "sign"
    /\ \E env \in BuildEnvs(makepkg_conf.val), key \in GpgKeys(makepkg_conf.val) :
        LET passes == SelectSeq(env, IsSignToken)
            files == ToSign(DOMAIN srcFiles)
        IN  /\ signLog' = <<[op |-> "get_var", name |-> "BUILDENV",
                              value |-> env]>>
                             \o [k \in 1..Len(passes) |->
                                   [op |-> "sign_packages", key |-> key,
                                    files |-> files]]
            /\ srcFiles' =
                 IF passes = <<>> THEN srcFiles
                 ELSE [n \in {f \o <<".", "s", "i", "g">> : f \in files} |-> "gpg"] @@ srcFiles
    /\ lpc' = "return"
    /\ UNCHANGED <<program, pkgbuild, buildTree, passwd, epVars, largv,
                   lnamespace, launcher, parameters, makepkg_conf,
                   complete_cmd_line, docker_status, lexit, mgrVars>>

\* main returns and the interpreter exits with status 0
LnReturn ==
    /\ lpc = "return"
    /\ lexit' = Some(0)
    /\ lpc' = "exited"
    /\ UNCHANGED <<program, envVars, epVars, largv, lnamespace, launcher,
                   parameters, makepkg_conf, complete_cmd_line,
                   docker_status, signLog, mgrVars>>

(***************************************************************************)
(* src/containerBuilder.py: DmakepkgBuilder.                               *)
(***************************************************************************)
\* addresses docker0 can carry: ipaddress.ip_address(addr) as its version,
\* its compressed text and whether it lies in fe80::/10
V4Pool ==
    {[version |-> 4, compressed |-> "172.17.0.1", link_local |-> FALSE],
     [version |-> 4, compressed |-> "10.8.0.1", link_local |-> FALSE],
     [version |-> 4, compressed |-> "192.168.9.1", link_local |-> FALSE]}

V6Pool ==
    {[version |-> 6, compressed |-> "fe80::1", link_local |-> TRUE],
     [version |-> 6, compressed |-> "fd00::1", link_local |-> FALSE],
     [version |-> 6, compressed |-> "2001:db8::1", link_local |-> FALSE]}

\* the lists of 1..MaxAddrs distinct addresses of a pool
AddressLists(pool) ==
    {l \in UNION {[1..k -> pool] : k \in 1..MaxAddrs} :
        \A i, j \in DOMAIN l : l[i] = l[j] => i = j}

\* what netifaces.ifaddresses('docker0') gives: an exception when there is
\* no such interface, else a dict family -> list of addresses, enumerated
\* in its insertion order
IfAddresses ==
    LET link == [family |-> "AF_PACKET", address_list |-> <<>>]
        inet == {[family |-> "AF_INET", address_list |-> l] :
                    l \in AddressLists(V4Pool)}
        inet6 == {[family |-> "AF_INET6", address_list |-> l] :
                    l \in AddressLists(V6Pool)}
    IN  {[exists |-> FALSE, families |-> <<>>]}
          \cup {[exists |-> TRUE, families |-> f] :
                  f \in {<<link>>}
                          \cup {<<link, a>> : a \in inet \cup inet6}
                          \cup {<<link, a, b>> : a \in inet, b \in inet6}
                          \cup {<<link, b, a>> : a \in inet, b \in inet6}}

\* line 65, ipv6_address.is_link_local(): is_link_local is a property of
\* ipaddress.IPv6Address, a bool; calling the bool raises TypeError
IsLinkLocalCall(address) == [raises |-> TRUE, val |-> address.link_local]

\* lines 63-66: the loop over the IPv6 addresses of the interface
RECURSIVE ScanInet6(_, _)
ScanInet6(address_list, j) ==
    IF j > Len(address_list) THEN [kind |-> "next", val |-> None, exc |-> ""]
    ELSE LET c == IsLinkLocalCall(address_list[j])
         IN  IF c.raises THEN [kind |-> "raise", val |-> None, exc |-> "TypeError"]
             ELSE IF ~c.val
                  THEN [kind |-> "return", val |-> Some(address_list[j]), exc |-> ""]
             ELSE ScanInet6(address_list, j + 1)

\* lines 58-69: the loop over the address families
RECURSIVE ScanFamilies(_, _)
ScanFamilies(families, i) ==
    IF i > Len(families) THEN [kind |-> "return", val |-> None, exc |-> ""]
    ELSE IF families[i].family = "AF_INET"
    THEN IF families[i].address_list # <<>>
         THEN [kind |-> "return", val |-> Some(families[i].address_list[1]),
               exc |-> ""]
         ELSE ScanFamilies(families, i + 1)
    ELSE IF families[i].family = "AF_INET6"
    THEN LET r == ScanInet6(families[i].address_list, 1)
         IN  IF r.kind = "next" THEN ScanFamilies(families, i + 1) ELSE r
    ELSE ScanFamilies(families, i + 1)

\* get_docker0_address: sys.exit(1) without the interface, else the scan
GetDocker0Address(ifaddresses) ==
    IF ~ifaddresses.exists THEN [kind |-> "exit", val |-> None, exc |-> ""]
    ELSE ScanFamilies(ifaddresses.families, 1)

\* lines 143-148: the rule insert_iptables_rules asks iptables -I to insert
CacheRule(ip) ==
    [comm |-> IF ip.version = 4 THEN "/bin/iptables" ELSE "/bin/ip6tables",
     chain |-> "INPUT", proto |-> "tcp", dport |-> "8990", iface |-> "docker0",
     dest |-> ip.compressed, target |-> "ACCEPT"]

\* a removal that names another port than the insertion
DeleteRuleOtherPort(ip) ==
    [comm |-> IF ip.version = 4 THEN "/bin/iptables" ELSE "/bin/ip6tables",
     chain |-> "INPUT", proto |-> "tcp", dport |-> "8991", iface |-> "docker0",
     dest |-> ip.compressed, target |-> "ACCEPT"]

\* lines 155-160: the rule delete_iptables_rules asks iptables -D to remove
DeleteRule(ip) ==
    [comm |-> IF ip.version = 4 THEN "/bin/iptables" ELSE "/bin/ip6tables",
     chain |-> "INPUT", proto |-> "tcp", dport |-> "8990", iface |-> "docker0",
     dest |-> ip.compressed, target |-> "ACCEPT"]

\* a rule of the host that has nothing to do with the cache
OtherRule ==
    [comm |-> "/bin/iptables", chain |-> "INPUT", proto |-> "tcp",
     dport |-> "22", iface |-> "eth0", dest |-> "0.0.0.0/0", target |-> "ACCEPT"]

\* iptables -D: the first rule that matches is removed
RECURSIVE RemoveFirst(_, _)
RemoveFirst(rules, r) ==
    IF rules = <<>> THEN <<>>
    ELSE IF Head(rules) = r THEN Tail(rules)
    ELSE <<Head(rules)>> \o RemoveFirst(Tail(rules), r)

\* the interpreter leaves main: on sys.exit(status) or an uncaught
\* exception the functions registered with atexit run, last one first
MgrLeave(status, exc) ==
    /\ mpc' = "atexit"
    /\ mexit' = Some(status)
    /\ mtraceback' = exc

\* line 168 and get_docker0_address
MgrGetAddress ==
    /\ mpc = "start"
    /\ \E a \in IfAddresses :
        /\ addresses' = Some(a)
        /\ LET r == GetDocker0Address(a)
           IN  IF r.kind = "exit"
               THEN MgrLeave(1, "") /\ UNCHANGED ip_address
               ELSE IF r.kind = "raise"
               THEN MgrLeave(1, r.exc) /\ UNCHANGED ip_address
               ELSE /\ ip_address' = r.val
                    /\ mpc' = "cache"
                    /\ UNCHANGED <<mexit, mtraceback>>
    /\ UNCHANGED <<program, envVars, epVars, lnVars, cache,
                   pacman_cache_ip, dockerfile, darkhttpd_process,
                   iptables, atexit, mlog, signalled>>

\* lines 170-171: is self.cache left as it is?  The condition that clears
\* it is: not ip_address or not self.pacman_cache_exists()
CacheDecision(ip, cache_exists) == ~(ip.isNone \/ ~cache_exists)

MgrCacheDecision ==
    /\ mpc = "cache"
    /\ \E cache_exists \in BOOLEAN :
        /\ cache' = (cache /\ CacheDecision(ip_address, cache_exists))
        /\ mlog' = IF ip_address.isNone THEN mlog
                   ELSE Append(mlog, [op |-> "pacman_cache_exists",
                                      result |-> cache_exists])
    /\ pacman_cache_ip' = ip_address
    /\ mpc' = "dockerfile"
    /\ UNCHANGED <<program, envVars, epVars, lnVars, addresses, ip_address,
                   dockerfile, darkhttpd_process, iptables, atexit,
                   signalled, mexit, mtraceback>>

\* line 175 and create_dockerfile: with the cache, the mirror entry of the
\* cache; without it, no mirror entry and COPY pump /usr/bin/pump
MgrCreateDockerfile ==
    /\ mpc = "dockerfile"
    /\ dockerfile' =
         IF cache
         THEN Some([mirror |-> Some([ip |-> pacman_cache_ip.val.compressed,
                                     port |-> "8990"]),
                    copy_pump |-> FALSE])
         ELSE Some([mirror |-> None, copy_pump |-> TRUE])
    /\ mlog' = Append(mlog, [op |-> "create_dockerfile"])
    /\ mpc' = "start_cache"
    /\ UNCHANGED <<program, envVars, epVars, lnVars, addresses, ip_address,
                   cache, pacman_cache_ip, darkhttpd_process, iptables,
                   atexit, signalled, mexit, mtraceback>>

\* line 178 and start_local_cache
MgrStartLocalCache ==
    /\ mpc = "start_cache"
    /\ darkhttpd_process' = "running"
    /\ mlog' = Append(mlog, [op |-> "start_local_cache"])
    /\ mpc' = "register_stop"
    /\ UNCHANGED <<program, envVars, epVars, lnVars, addresses, ip_address,
                   cache, pacman_cache_ip, dockerfile, iptables, atexit,
                   signalled, mexit, mtraceback>>

\* line 180
MgrRegisterStop ==
    /\ mpc = "register_stop"
    /\ atexit' = Append(atexit, "stop_local_cache")
    /\ mpc' = "insert"
    /\ UNCHANGED <<program, envVars, epVars, lnVars, addresses, ip_address,
                   cache, pacman_cache_ip, dockerfile, darkhttpd_process,
                   iptables, mlog, signalled, mexit, mtraceback>>

\* line 183 and insert_iptables_rules: self.pacman_cache_ip.version raises
\* AttributeError when no address was found
MgrInsertRules ==
    /\ mpc = "insert"
    /\ IF pacman_cache_ip.isNone
       THEN MgrLeave(1, "AttributeError") /\ UNCHANGED <<iptables, mlog>>
       ELSE /\ iptables' = <<CacheRule(pacman_cache_ip.val)>> \o iptables
            /\ mlog' = Append(mlog, [op |-> "insert_iptables_rules",
                                     rule |-> CacheRule(pacman_cache_ip.val),
                                     before |-> iptables])
            /\ mpc' = "register_delete"
            /\ UNCHANGED <<mexit, mtraceback>>
    /\ UNCHANGED <<program, envVars, epVars, lnVars, addresses, ip_address,
                   cache, pacman_cache_ip, dockerfile, darkhttpd_process,
                   atexit, signalled>>

\* line 186
MgrRegisterDelete ==
    /\ mpc = "register_delete"
    /\ atexit' = Append(atexit, "delete_iptables_rules")
    /\ mpc' = "docker_build"
    /\ UNCHANGED <<program, envVars, epVars, lnVars, addresses, ip_address,
                   cache, pacman_cache_ip, dockerfile, darkhttpd_process,
                   iptables, mlog, signalled, mexit, mtraceback>>

\* line 188 and start_docker_build, lines 76-81: docker build is started
MgrStartDockerBuild ==
    /\ mpc = "docker_build"
    /\ mlog' = Append(mlog, [op |-> "docker_build"])
    /\ mpc' = "building"
    /\ UNCHANGED <<program, envVars, epVars, lnVars, addresses, ip_address,
                   cache, pacman_cache_ip, dockerfile, darkhttpd_process,
                   iptables, atexit, signalled, mexit, mtraceback>>

\* lines 81-90 and line 188: docker build ends, or subprocess.run raised
\* and the exception was swallowed; a failed build has its container
\* removed; start_docker_build returns None and sys.exit(None) is status 0
MgrDockerBuildDone ==
    /\ mpc = "building"
    /\ \E outcome \in {"built", "failed", "raised"} :
        mlog' = IF outcome = "failed"
                THEN mlog \o << [op |-> "docker_build_done", outcome |-> outcome],
                                [op |-> "docker_container_rm"] >>
                ELSE Append(mlog, [op |-> "docker_build_done",
                                   outcome |-> outcome])
    /\ MgrLeave(0, "")
    /\ UNCHANGED <<program, envVars, epVars, lnVars, addresses, ip_address,
                   cache, pacman_cache_ip, dockerfile, darkhttpd_process,
                   iptables, atexit, signalled>>

\* atexit runs delete_iptables_rules
MgrAtexitDelete ==
    /\ mpc = "atexit"
    /\ atexit # <<>>
    /\ atexit[Len(atexit)] = "delete_iptables_rules"
    /\ atexit' = SubSeq(atexit, 1, Len(atexit) - 1)
    /\ iptables' = RemoveFirst(iptables, DeleteRule(pacman_cache_ip.val))
    /\ mlog' = Append(mlog, [op |-> "delete_iptables_rules",
                             rule |-> DeleteRule(pacman_cache_ip.val)])
    /\ UNCHANGED <<program, envVars, epVars, lnVars, mpc, addresses,
                   ip_address, cache, pacman_cache_ip, dockerfile,
                   darkhttpd_process, signalled, mexit, mtraceback>>

\* atexit runs stop_local_cache
MgrAtexitStop ==
    /\ mpc = "atexit"
    /\ atexit # <<>>
    /\ atexit[Len(atexit)] = "stop_local_cache"
    /\ atexit' = SubSeq(atexit, 1, Len(atexit) - 1)
    /\ darkhttpd_process' = "terminated"
    /\ mlog' = Append(mlog, [op |-> "stop_local_cache"])
    /\ UNCHANGED <<program, envVars, epVars, lnVars, mpc, addresses,
                   ip_address, cache, pacman_cache_ip, dockerfile,
                   iptables, signalled, mexit, mtraceback>>

\* nothing is left to run: the process ends with its status
MgrExited ==
    /\ mpc = "atexit"
    /\ atexit = <<>>
    /\ mpc' = "exited"
    /\ UNCHANGED <<program, envVars, epVars, lnVars, addresses, ip_address,
                   cache, pacman_cache_ip, dockerfile, darkhttpd_process,
                   iptables, atexit, mlog, signalled, mexit, mtraceback>>

\* the positions of main at which the manager is running its own code
MgrRunning ==
    {"start", "cache", "dockerfile", "start_cache", "register_stop", "insert",
     "register_delete", "docker_build", "building"}

\* SIGINT: Python raises KeyboardInterrupt in the main thread.  Inside
\* start_docker_build the bare except swallows it and main goes on to
\* sys.exit(None); elsewhere it is uncaught.  Either way the interpreter
\* shuts down in the ordinary way, so the atexit functions run
MgrSigint ==
    /\ mpc \in MgrRunning
    /\ signalled = ""
    /\ signalled' = "SIGINT"
    /\ IF mpc = "building" THEN MgrLeave(0, "")
       ELSE MgrLeave(130, "KeyboardInterrupt")
    /\ UNCHANGED <<program, envVars, epVars, lnVars, addresses, ip_address,
                   cache, pacman_cache_ip, dockerfile, darkhttpd_process,
                   iptables, atexit, mlog>>

\* SIGTERM: Python installs no handler, the process is killed; atexit
\* functions are not called when the program is killed by a signal not
\* handled by Python
MgrSigterm ==
    /\ mpc \in MgrRunning \cup {"atexit"}
    /\ signalled = ""
    /\ signalled' = "SIGTERM"
    /\ mpc' = "killed"
    /\ mexit' = Some(143)
    /\ UNCHANGED <<program, envVars, epVars, lnVars, addresses, ip_address,
                   cache, pacman_cache_ip, dockerfile, darkhttpd_process,
                   iptables, atexit, mlog, mtraceback>>

(***************************************************************************)
(* Initial states and the next-state relation.                             *)
(***************************************************************************)
\* one optional word or group of words of a command line
Opt(words) == {<<>>, words}

\* command lines of the entrypoint: every option given or left out; -g with
\* 0 or a gid, -u with 0, a uid or a word that is not a number
EntryArgvs ==
    {e \o g \o p \o u \o y \o Z \o z \o r :
        e \in Opt(<<OPT_e, CmdText>>),
        g \in {<<>>, <<OPT_g, <<"0">>>>, <<OPT_g, <<"9", "8", "5">>>>},
        p \in Opt(<<OPT_p>>),
        u \in {<<>>, <<OPT_u, <<"0">>>>, <<OPT_u, <<"1", "0", "0", "0">>>>, <<OPT_u, <<"x">>>>},
        y \in Opt(<<OPT_y>>),
        Z \in Opt(<<OPT_Z>>),
        z \in Opt(<<OPT_z>>),
        r \in Opt(<<PassThrough>>)}

\* command lines of the launcher
LauncherArgvs ==
    {x \o y \o z \o Z \o e \o r :
        x \in Opt(<<OPT_x, OPT_X, OPT_Y>>),
        y \in Opt(<<OPT_y>>),
        z \in Opt(<<OPT_z>>),
        Z \in Opt(<<OPT_Z>>),
        e \in Opt(<<OPT_e, CmdText>>),
        r \in Opt(<<PassThrough>>)}

\* what /src/PKGBUILD can be
PkgbuildKinds == {"missing", "regular", "symlink", "dangling"}

\* the caller's directory: the PKGBUILD unless it is missing, and possibly
\* an archive of an earlier build
SrcTrees(kind) ==
    LET base == IF kind = "missing" THEN <<>>
                ELSE (PkgbuildName :> "host")
    IN  {base, (OldPkg :> "host") @@ base}

EmptyTree == [q \in {} |-> None]

EnvInit ==
    /\ pkgbuild \in PkgbuildKinds
    /\ srcFiles \in SrcTrees(pkgbuild)
    /\ buildTree = EmptyTree
    /\ passwd = None

EnvIdle ==
    /\ pkgbuild = "missing"
    /\ srcFiles = <<>>
    /\ buildTree = EmptyTree
    /\ passwd = None

EntryIdle ==
    /\ namespace = None
    /\ container = ContainerInit
    /\ stat_result = None
    /\ build_user_uid = None
    /\ build_user_gid = None
    /\ distcc_hosts = None
    /\ flags = <<>>
    /\ built_packages = <<>>
    /\ cwd = "/"
    /\ running = None
    /\ log = <<>>
    /\ exitStatus = None
    /\ traceback = ""

LauncherIdle ==
    /\ lnamespace = None
    /\ launcher = LauncherInit
    /\ parameters = <<>>
    /\ makepkg_conf = None
    /\ complete_cmd_line = <<>>
    /\ docker_status = None
    /\ signLog = <<>>
    /\ lexit = None

\* DmakepkgBuilder.__init__
ManagerIdle ==
    /\ addresses = None
    /\ ip_address = None
    /\ cache = TRUE
    /\ pacman_cache_ip = None
    /\ dockerfile = None
    /\ darkhttpd_process = "none"
    /\ atexit = <<>>
    /\ mlog = <<>>
    /\ signalled = ""
    /\ mexit = None
    /\ mtraceback = ""

\* the container is started by hand: /run.py with a command line
InitEntry ==
    /\ program = "run.py"
    /\ EnvInit
    /\ argv \in EntryArgvs /\ pc = "parse" /\ EntryIdle
    /\ largv = <<>> /\ lpc = "notstarted" /\ LauncherIdle
    /\ mpc = "notstarted" /\ iptables = <<>> /\ ManagerIdle

\* dmakepkg on the host, which starts the container
InitLauncher ==
    /\ program = "dmakepkg.py"
    /\ EnvInit
    /\ argv = <<>> /\ pc = "notstarted" /\ EntryIdle
    /\ largv \in LauncherArgvs /\ lpc = "parse" /\ LauncherIdle
    /\ mpc = "notstarted" /\ iptables = <<>> /\ ManagerIdle

\* containerBuilder.py on the host
InitManager ==
    /\ program = "containerBuilder.py"
    /\ EnvIdle
    /\ argv = <<>> /\ pc = "notstarted" /\ EntryIdle
    /\ largv = <<>> /\ lpc = "notstarted" /\ LauncherIdle
    /\ mpc = "start" /\ iptables \in {<<>>, <<OtherRule>>} /\ ManagerIdle

Init == InitEntry \/ InitLauncher \/ InitManager

Next ==
    \/ EpParse
    \/ EpCheckPkgbuild
    \/ EpConvert
    \/ EpGroupadd
    \/ EpUseraddInPlace
    \/ EpChdir
    \/ EpUseradd
    \/ EpCopySource
    \/ EpIndexRefresh
    \/ EpKeySetup
    \/ EpPreBuildCommand
    \/ EpBuildPump
    \/ EpBuildDirect
    \/ EpFinalizeOwnership
    \/ EpHarvest
    \/ EpResult
    \/ ChildExit
    \/ UseraddExit
    \/ MakepkgExit
    \/ LnParse
    \/ LnFindParameters
    \/ LnCmdLine
    \/ LnSpawn
    \/ LnWait
    \/ LnSign
    \/ LnReturn
    \/ MgrGetAddress
    \/ MgrCacheDecision
    \/ MgrCreateDockerfile
    \/ MgrStartLocalCache
    \/ MgrRegisterStop
    \/ MgrInsertRules
    \/ MgrRegisterDelete
    \/ MgrStartDockerBuild
    \/ MgrDockerBuildDone
    \/ MgrAtexitDelete
    \/ MgrAtexitStop
    \/ MgrExited
    \/ MgrSigint
    \/ MgrSigterm

Spec == Init /\ [][Next]_vars

(***************************************************************************)
(* Properties.                                                             *)
(***************************************************************************)
\* the events of a log with a given op
EventsOf(lg, op) == {i \in DOMAIN lg : lg[i].op = op}

\* the steps of the entrypoint's main up to the precondition, and its end
BeforeProvisioning == {"notstarted", "parse", "check", "exited"}

\* C1: whenever /src/PKGBUILD is missing or a symbolic link, the entrypoint
\* never gets past the precondition: it has made no side effect (no
\* groupadd / useradd, no copy, no pacman, no pre-build command, no build
\* subprocess), build-user and /build are as they were, and once it has
\* exited its status is 1.  This holds for every command line, given by hand
\* or by the launcher.
C1_BadPkgbuildExitsBeforeAnySideEffect ==
    pkgbuild \in {"missing", "symlink", "dangling"} =>
        /\ pc \in BeforeProvisioning
        /\ log = <<>>
        /\ running = None
        /\ passwd = None
        /\ buildTree = EmptyTree
        /\ pc = "exited" => exitStatus = Some(1) /\ traceback = ""

\* C1, reached: the entrypoint has exited on a PKGBUILD that is a symbolic
\* link to a regular file, with -Z, -p and -e on its command line
C1_Witness ==
    /\ program = "run.py"
    /\ pkgbuild = "symlink"
    /\ pc = "exited"
    /\ exitStatus = Some(1)
    /\ namespace.Z /\ namespace.p /\ ~namespace.e.isNone

\* C2: a run of the entrypoint on a valid PKGBUILD ends only at the result
\* stage, with status 0 or 2, whichever options are given or left out (-u
\* and -g too); status 1 is the status of a missing or symbolic-link
\* PKGBUILD and of nothing else.
C2_ValidPkgbuildEndsAtResultStage ==
    pc = "exited" =>
        /\ pkgbuild = "regular" =>
              /\ exitStatus.val \in {0, 2}
              /\ EventsOf(log, "harvest") # {}
        /\ exitStatus.val = 1 <=> pkgbuild \in {"missing", "symlink", "dangling"}

\* C3: once the harvest has been made, the archives copied to /src are
\* all the matches of the glob but those whose copy raised, they are what
\* built_packages holds, and the entrypoint's exit status is 2 when nothing
\* was copied and 0 otherwise, whatever status the build tool had.
C3_ResultFollowsHarvestOnly ==
    \A i \in EventsOf(log, "harvest") :
        /\ log[i].attempted = GlobBuild(buildTree)
        /\ log[i].copied \subseteq log[i].attempted
        /\ Range(built_packages) = log[i].copied
        /\ \A q \in log[i].copied : q[1] \in DOMAIN srcFiles
        /\ pc \in {"result", "exited"}
        /\ pc = "exited" =>
              exitStatus = Some(IF log[i].copied = {} THEN 2 ELSE 0)

\* the exit event of the build tool in the log
BuildExits == {i \in EventsOf(log, "exit") : log[i].cmd = "su"}

\* C3, reached: the build tool failed, two archives matched the glob, the
\* copy of one raised, the other was copied, and the exit status is 0
C3_Witness ==
    /\ pc = "exited"
    /\ exitStatus = Some(0)
    /\ \E i \in BuildExits : log[i].rc = 1
    /\ \E i \in EventsOf(log, "harvest") :
          /\ Cardinality(log[i].attempted) = 2
          /\ Cardinality(log[i].copied) = 1

\* C4: the launcher's exit status is the exit status of the container it
\* started and waited for.
C4_LauncherPropagatesContainerStatus ==
    lpc = "exited" => lexit = docker_status

\* the manager process has ended
MgrEnded == mpc \in {"exited", "killed"}

\* how many times an operation of the manager has run
TimesRun(op) == Cardinality(EventsOf(mlog, op))

\* C5: whichever way the manager ends, a cache server that was started has
\* been terminated exactly once and a firewall rule that was inserted has
\* been removed exactly once.
C5_TeardownOnEveryExit ==
    MgrEnded =>
        /\ TimesRun("start_local_cache") > 0 => TimesRun("stop_local_cache") = 1
        /\ TimesRun("insert_iptables_rules") > 0 =>
              TimesRun("delete_iptables_rules") = 1

\* is the rule of the cache in the INPUT chain?
CacheRulePresent ==
    /\ ~pacman_cache_ip.isNone
    /\ CacheRule(pacman_cache_ip.val) \in Range(iptables)

\* C6: the cache server is started before the rule is inserted; when both
\* teardown functions run, the rule is removed before the server is
\* terminated; the rule is never in place while the server has been
\* terminated by the manager.
C6_TeardownReversesAcquisition ==
    /\ \A i \in EventsOf(mlog, "insert_iptables_rules") :
          \E j \in EventsOf(mlog, "start_local_cache") : j < i
    /\ \A i \in EventsOf(mlog, "stop_local_cache") :
          \A j \in EventsOf(mlog, "delete_iptables_rules") : j < i
    /\ ~(CacheRulePresent /\ darkhttpd_process = "terminated")

\* an address the cache can be reached at: any IPv4 address, or an IPv6
\* address that is not link-local
Usable(ifaddresses) ==
    UNION {{a \in Range(ifaddresses.families[i].address_list) : ~a.link_local} :
              i \in DOMAIN ifaddresses.families}

\* C7: when there is no docker0, or docker0 has no usable address, the
\* manager ends without an error, with the cache disabled, the Dockerfile
\* written and the image build started.
C7_NoAddressIsNotFatal ==
    (/\ mpc = "exited"
     /\ signalled = ""
     /\ ~addresses.isNone
     /\ (~addresses.val.exists \/ Usable(addresses.val) = {})) =>
        /\ mexit = Some(0)
        /\ mtraceback = ""
        /\ ~cache
        /\ ~dockerfile.isNone
        /\ TimesRun("docker_build") = 1

\* the IPv4 addresses of the interface, family by family
Inet4Lists(ifaddresses) ==
    {ifaddresses.families[i].address_list :
        i \in {i \in DOMAIN ifaddresses.families :
                 ifaddresses.families[i].family = "AF_INET"}}

\* C8: for every set of addresses on docker0 and every order of the address
\* families, get_docker0_address never returns a link-local address, and
\* returns the first IPv4 address when the interface has one, also when it
\* has a non-link-local IPv6 address.
C8_FirstInet4NeverLinkLocal ==
    (~addresses.isNone /\ addresses.val.exists) =>
        LET r == GetDocker0Address(addresses.val)
        IN  /\ (r.kind = "return" /\ ~r.val.isNone) => ~r.val.val.link_local
            /\ \A l \in Inet4Lists(addresses.val) :
                  r.kind = "return" /\ r.val = Some(l[1])

\* the build subprocesses the entrypoint has started
BuildSpawns == {i \in EventsOf(log, "spawn") : log[i].child.cmd = "su"}

\* C9: the build runs under pump exactly when DISTCC_HOSTS holds ",cpp" and
\* the caller did not give -y, and runs makepkg directly otherwise; the
\* launcher hands -y to the entrypoint exactly when its caller gave it.
C9_PumpIffMarkerAndNoOptOut ==
    /\ \A i \in BuildSpawns :
          LET caller == IF program = "dmakepkg.py" THEN largv ELSE argv
          IN  log[i].child.pump <=>
                (/\ Contains(distcc_hosts.val, CppMarker)
                 /\ OPT_y \notin Range(caller))
    /\ (program = "dmakepkg.py" /\ pc # "notstarted") =>
          (OPT_y \in Range(argv) <=> OPT_y \in Range(largv))

\* C9, reached: the launcher was called without -y, DISTCC_HOSTS names a
\* pump-capable host, and the entrypoint has started the build under pump
C9_Witness ==
    /\ program = "dmakepkg.py"
    /\ OPT_y \notin Range(largv)
    /\ \E i \in BuildSpawns : log[i].child.pump /\ log[i].child.hosts = <<"h", ",", "c", "p", "p">>

\* the ids the ownership finalization is to use, from the -u and -g given:
\* (uid, gid), (uid, -1) when -g was not given, nothing when -u was not given
ExpectedOwnership(u, g) ==
    IF u.isNone THEN None
    ELSE IF g.isNone THEN Some([uid |-> DecVal(u.val), gid |-> -1])
    ELSE Some([uid |-> DecVal(u.val), gid |-> DecVal(g.val)])

\* C10: right after the ownership finalization, the last call made is the
\* chown of /build to (uid, gid) when -u and -g were given, to (uid, -1) when
\* only -u was given, and is no chown when -u was not given.
C10_FinalOwnershipUsesGivenIds ==
    pc = "harvest" =>
        LET ids == ExpectedOwnership(namespace.u, namespace.g)
            last == log[Len(log)]
        IN  IF ids.isNone THEN last.op # "chown"
            ELSE last = [op |-> "chown", uid |-> ids.val.uid,
                         gid |-> ids.val.gid, path |-> <<>>]

\* C11: once the build identity is provisioned, with -Z its uid and gid are
\* the owning uid and gid of /src/PKGBUILD, both in the account that was
\* created and in the uid the entrypoint keeps for it, whether or not the
\* two ids differ; without -Z they are the ids useradd generated.
C11_InPlaceIdentityIsPkgbuildOwner ==
    (~passwd.isNone /\ ~build_user_uid.isNone) =>
        IF namespace.Z
        THEN /\ passwd.val.uid = stat_result.val.st_uid
             /\ passwd.val.gid = stat_result.val.st_gid
             /\ build_user_uid = Some(stat_result.val.st_uid)
        ELSE /\ passwd.val.uid \in GeneratedIds
             /\ passwd.val.gid \in GeneratedIds
             /\ build_user_uid = Some(passwd.val.uid)
             /\ build_user_gid = Some(passwd.val.gid)

\* the positions of the -v options of a command line, and the volumes given
MountPositions(cl) == {i \in 1..(Len(cl) - 1) : cl[i] = OPT_v}
Mounts(cl) == {cl[i + 1] : i \in MountPositions(cl)}

\* the destination variables of the host configuration that are set
SetDests(conf) == {k \in DOMAIN conf.dests : conf.dests[k] # <<>>}

\* C12: when the host's makepkg.conf exists, the docker command line mounts
\* every non-empty SRCDEST, PKGDEST, SRCPKGDEST and LOGDEST value v as v:v,
\* and adds no mount for a variable that is empty: the mounts are those of
\* /src, of the pacman files asked for, of makepkg.conf and of the set
\* destinations.
C12_DestinationsMountedAtSamePath ==
    (complete_cmd_line # <<>> /\ makepkg_conf.val.exists) =>
        /\ \A k \in SetDests(makepkg_conf.val) :
              FormatPair(makepkg_conf.val.dests[k], makepkg_conf.val.dests[k])
                  \in Mounts(complete_cmd_line)
        /\ Cardinality(MountPositions(complete_cmd_line))
             = 2 + (IF lnamespace.x THEN 1 ELSE 0) + (IF lnamespace.X THEN 1 ELSE 0)
                 + (IF lnamespace.Y THEN 1 ELSE 0)
                 + Cardinality(SetDests(makepkg_conf.val))

\* C13: the launcher hands -z to the entrypoint exactly when its caller gave
\* -z, so the key-retrieval setup of the entrypoint runs exactly when the
\* caller did not give it.
C13_KeyOptOutForwarded ==
    (program = "dmakepkg.py" /\ pc # "notstarted") =>
        /\ OPT_z \in Range(argv) <=> OPT_z \in Range(largv)
        /\ pc \in {"command", "build", "chown", "harvest", "result"} =>
              (EventsOf(log, "makedirs") # {} <=> OPT_z \notin Range(largv))

\* the entrypoint has exited and nothing has touched /src since
EntryJustExited == pc = "exited" /\ lpc \in {"notstarted", "wait"}

\* C14: when the build tool deposited no archive, the entrypoint exits
\* with status 2 and /src holds what it held before the run: every entry
\* is the caller's own file.
C14_NoArtifactLeavesSrcUnchanged ==
    (EntryJustExited /\ \E i \in BuildExits : log[i].produced = {}) =>
        /\ exitStatus = Some(2)
        /\ \A n \in DOMAIN srcFiles : srcFiles[n] = "host"

\* C15: exit status 0 means that the build tool of this run produced an
\* archive, and that every archive harvested was deposited in /build by this
\* build, none of them being a file copied there from /src.
C15_SuccessMeansBuiltByThisRun ==
    (EntryJustExited /\ exitStatus = Some(0)) =>
        /\ \E i \in BuildExits : log[i].produced # {}
        /\ \A i \in EventsOf(log, "harvest") :
              \A q \in log[i].copied : buildTree[q].origin = "makepkg"

\* the signing passes the launcher has made
SignPasses == EventsOf(signLog, "sign_packages")

\* C16: BUILDENV is read and signing is done only after the container has
\* ended; there is one signing pass when BUILDENV holds an entry that
\* contains "sign" and does not start with "!", and none otherwise; a pass
\* signs exactly the files of the working directory whose name contains
\* ".pkg." and does not end in "sig".
C16_OneSigningPassAfterContainerExit ==
    signLog # <<>> =>
        /\ pc = "exited"
        /\ docker_status = exitStatus
        /\ Cardinality(SignPasses)
             = IF \E t \in Range(signLog[1].value) :
                     Contains(t, <<"s", "i", "g", "n">>) /\ t[1] # "!"
               THEN 1 ELSE 0
        /\ \A i \in SignPasses :
              signLog[i].files
                = {n \in DOMAIN srcFiles :
                     /\ Contains(n, <<".", "p", "k", "g", ".">>)
                     /\ ~EndsWith(n, <<"s", "i", "g">>)}

\* the stage of main an event of the log belongs to: 2 provisioning and
\* copy, 3 index refresh, 4 key-retrieval setup, 5 pre-build command,
\* 6 build, 7 ownership finalization, 8 harvest.  A chown belongs to the
\* copy when it follows copy_tree, to the key setup when it follows
\* makedirs, and is the ownership finalization otherwise.
StageOfCmd(cmd) ==
    CASE cmd \in {"groupadd", "useradd"} -> 2
      [] cmd = "pacman" -> 3
      [] cmd = "command" -> 5
      [] cmd = "su" -> 6

StageOfEvent(lg, i) ==
    CASE lg[i].op = "spawn" -> StageOfCmd(lg[i].child.cmd)
      [] lg[i].op = "exit" -> StageOfCmd(lg[i].cmd)
      [] lg[i].op \in {"chdir", "copy_tree"} -> 2
      [] lg[i].op \in {"makedirs", "append"} -> 4
      [] lg[i].op = "harvest" -> 8
      [] lg[i].op = "chown" ->
            IF i > 1 /\ lg[i - 1].op = "copy_tree" THEN 2
            ELSE IF i > 1 /\ lg[i - 1].op = "makedirs" THEN 4
            ELSE 7

\* C17: the stages of the entrypoint run in the order precondition,
\* provisioning and copy, index refresh, key-retrieval setup, pre-build
\* command, build, ownership finalization, harvest, result; while a
\* subprocess runs nothing else happens: what follows its start in the log
\* is its own exit, under pump and under the direct build alike.
C17_StagesInOrderEachBlocking ==
    /\ log # <<>> => PkgbuildOk(pkgbuild)
    /\ \A i, j \in DOMAIN log :
          i < j => StageOfEvent(log, i) <= StageOfEvent(log, j)
    /\ \A i \in EventsOf(log, "spawn") :
          IF i = Len(log) THEN running = log[i].child
          ELSE log[i + 1].op = "exit" /\ log[i + 1].cmd = log[i].child.cmd
    /\ running # None => log[Len(log)] = [op |-> "spawn", child |-> running]
    /\ (pc = "exited" /\ traceback = "" /\ PkgbuildOk(pkgbuild)) =>
          /\ log[Len(log)].op = "harvest"
          /\ BuildExits # {}
    /\ \A i \in EventsOf(log, "harvest") : i = Len(log)

\* C17, reached: a run in copy mode with key setup, a pre-build command, a
\* build under pump and an ownership finalization has come to its result
C17_Witness ==
    /\ pc = "exited"
    /\ exitStatus \in {Some(0), Some(2)}
    /\ EventsOf(log, "copy_tree") # {}
    /\ EventsOf(log, "makedirs") # {}
    /\ \E i \in EventsOf(log, "spawn") : log[i].child.cmd = "command"
    /\ \E i \in BuildSpawns : log[i].child.pump
    /\ \E i \in EventsOf(log, "chown") : StageOfEvent(log, i) = 7

\* C18: the cache server is started and the firewall rule is inserted only
\* when the cache is enabled, that is when an address of docker0 was found
\* and the cache directory exists; with the cache disabled neither is ever
\* created.
C18_CacheResourcesOnlyWhenEnabled ==
    /\ ~dockerfile.isNone =>
          (cache <=> /\ ~ip_address.isNone
                     /\ \E i \in EventsOf(mlog, "pacman_cache_exists") :
                           mlog[i].result)
    /\ (darkhttpd_process # "none" \/ TimesRun("start_local_cache") > 0) => cache
    /\ (CacheRulePresent \/ TimesRun("insert_iptables_rules") > 0) => cache

\* the entrypoint has made its key-retrieval setup
KeySetupDone == EventsOf(log, "makedirs") # {}

\* C19: with the key-retrieval setup enabled, when the build subprocess is
\* started ~build-user/.gnupg is owned by the uid and the gid of build-user,
\* with -Z and without.
C19_GnupgOwnedByBuildUserAtBuild ==
    (container.download_keys = Some(TRUE)
       /\ running # None /\ running.cmd = "su") =>
        /\ Gnupg \in DOMAIN buildTree
        /\ buildTree[Gnupg].uid = passwd.val.uid
        /\ buildTree[Gnupg].gid = passwd.val.gid

\* C20: with the key-retrieval setup enabled, once the stage is over
\* gpg.conf holds the auto-key-retrieve directive and has mode 0600.
C20_GpgConfRestricted ==
    (container.download_keys = Some(TRUE)
       /\ pc \in {"command", "build", "chown", "harvest", "result"}) =>
        /\ KeySetupDone
        /\ GpgConf \in DOMAIN buildTree
        /\ buildTree[GpgConf].origin = "append_to_file"
        /\ buildTree[GpgConf].mode = 600

\* C21: under pump and directly alike, the build tool is run by su as
\* build-user in a login shell (su -l); no build is started without -l or
\* as another user.
C21_BuildRunsInLoginShellAsBuildUser ==
    \A i \in BuildSpawns :
        /\ log[i].child.user = "build-user"
        /\ log[i].child.login

\* C22: with -Z no copy of the source tree is made and the build tool is
\* started with /src as its working directory, under pump and directly
\* alike.
C22_InPlaceBuildsInSrc ==
    (namespace # None /\ namespace.Z) =>
        /\ EventsOf(log, "copy_tree") = {}
        /\ \A i \in BuildSpawns : log[i].child.cwd = "/src"

\* C23: a removal of the firewall rule is made only after the insertion has
\* returned, names the same rule as the insertion (same tool, chain,
\* protocol, port, interface and destination), and leaves the INPUT chain
\* as it was before the insertion.
C23_RemovalUndoesInsertion ==
    \A j \in EventsOf(mlog, "delete_iptables_rules") :
        \E i \in EventsOf(mlog, "insert_iptables_rules") :
            /\ i < j
            /\ mlog[j].rule = mlog[i].rule
            /\ iptables = mlog[i].before

\* C23, reached: the rule was inserted in a chain that held another rule
\* and has been removed again
C23_Witness ==
    /\ EventsOf(mlog, "delete_iptables_rules") # {}
    /\ \E i \in EventsOf(mlog, "insert_iptables_rules") :
          mlog[i].before = <<OtherRule>>
    /\ iptables = <<OtherRule>>

====
